---- MODULE Spec2Model ----
(***************************************************************************)
(* A model of setsum (src/src/lib.rs): the per-column modular arithmetic,  *)
(* the hash-to-state mapping, and the Setsum object with insert, remove,   *)
(* digest, + and -.                                                        *)
(*                                                                         *)
(* Width.  The columns are u32 and the primes lie just below 2^32, so the  *)
(* values do not fit the model checker's integers.  A u32 is therefore a   *)
(* pair of 16-bit limbs <<lo, hi>> (value lo + 2^16 * hi) and a u64 is     *)
(* four limbs, least significant first; +, -, <, % are computed on limbs   *)
(* with the width of the Rust type.                                        *)
(***************************************************************************)
EXTENDS Integers, Sequences, FiniteSets, Bags

----------------------------------------------------------------------------
(* Constants of the program.                                               *)

SETSUM_BYTES == 32

SETSUM_BYTES_PER_COLUMN == 4

SETSUM_COLUMNS == SETSUM_BYTES \div SETSUM_BYTES_PER_COLUMN

\* Column indices, 0-based as in the source.
Cols == 0 .. (SETSUM_COLUMNS - 1)

Limb == 2 ^ 16

\* The u32 with high half hi and low half lo.
U32(hi, lo) == <<lo, hi>>

\* 4294967291, 4294967279, 4294967231, 4294967197,
\* 4294967189, 4294967161, 4294967143, 4294967111
\* = 0xfffffffb, 0xffffffef, 0xffffffbf, 0xffffff9d,
\*   0xffffff95, 0xffffff79, 0xffffff67, 0xffffff47
SETSUM_PRIMES ==
    [i \in Cols |->
        CASE i = 0 -> U32(65535, 65531)
          [] i = 1 -> U32(65535, 65519)
          [] i = 2 -> U32(65535, 65471)
          [] i = 3 -> U32(65535, 65437)
          [] i = 4 -> U32(65535, 65429)
          [] i = 5 -> U32(65535, 65401)
          [] i = 6 -> U32(65535, 65383)
          [] i = 7 -> U32(65535, 65351)]

----------------------------------------------------------------------------
(* Machine integers on limbs.                                              *)

U32_ZERO == <<0, 0>>

U32_MAX == <<Limb - 1, Limb - 1>>

\* x as u64
as_u64(x) == <<x[1], x[2], 0, 0>>

\* x as u32 (truncation to the low 32 bits)
as_u32(x) == <<x[1], x[2]>>

\* a + b on u64 (an overflow would wrap; operands below 2^32 never overflow)
add_u64(a, b) ==
    LET s1 == a[1] + b[1]
        s2 == a[2] + b[2] + (s1 \div Limb)
        s3 == a[3] + b[3] + (s2 \div Limb)
        s4 == a[4] + b[4] + (s3 \div Limb)
    IN  <<s1 % Limb, s2 % Limb, s3 % Limb, s4 % Limb>>

\* a < b on u64
lt_u64(a, b) ==
    \/ a[4] < b[4]
    \/ a[4] = b[4] /\ a[3] < b[3]
    \/ a[4] = b[4] /\ a[3] = b[3] /\ a[2] < b[2]
    \/ a[4] = b[4] /\ a[3] = b[3] /\ a[2] = b[2] /\ a[1] < b[1]

\* a <= b on u64
le_u64(a, b) == ~ lt_u64(b, a)

\* a - b on u64, wrapping
sub_u64(a, b) ==
    LET d1 == a[1] - b[1]
        d2 == a[2] - b[2] - (IF d1 < 0 THEN 1 ELSE 0)
        d3 == a[3] - b[3] - (IF d2 < 0 THEN 1 ELSE 0)
        d4 == a[4] - b[4] - (IF d3 < 0 THEN 1 ELSE 0)
    IN  <<d1 % Limb, d2 % Limb, d3 % Limb, d4 % Limb>>

\* a % p on u64, p > 0
RECURSIVE rem_u64(_, _)
rem_u64(a, p) == IF lt_u64(a, p) THEN a ELSE rem_u64(sub_u64(a, p), p)

\* a % p on u32
rem_u32(a, p) == as_u32(rem_u64(as_u64(a), as_u64(p)))

\* a < b, a <= b on u32
lt_u32(a, b) == lt_u64(as_u64(a), as_u64(b))

le_u32(a, b) == ~ lt_u32(b, a)

\* a - b on u32, wrapping (what a build without overflow checks computes)
wrapping_sub_u32(a, b) == as_u32(sub_u64(as_u64(a), as_u64(b)))

\* x.to_le_bytes() of a u32: four bytes, least significant first
to_le_bytes(x) == <<x[1] % 256, x[1] \div 256, x[2] % 256, x[2] \div 256>>

\* u32::from_le_bytes(buf)
from_le_bytes(buf) == <<buf[1] + 256 * buf[2], buf[3] + 256 * buf[4]>>

----------------------------------------------------------------------------
(* Group arithmetic on state vectors ([Cols -> u32]).                      *)

\* Mutant: the sum is reduced only when it exceeds the prime (> for >=).
column_sum_off_by_one(i, lhs, rhs) ==
    LET sum == add_u64(as_u64(lhs[i]), as_u64(rhs[i]))
        p == as_u64(SETSUM_PRIMES[i])
    IN  IF lt_u64(p, sum) THEN rem_u64(sum, p) ELSE sum

\* Mutant: the running column is doubled before the item is added, as in
\* a rolling hash: (2 * lc + rc) % SETSUM_PRIMES[i].
column_sum_rolling(i, lhs, rhs) ==
    LET lc == as_u64(lhs[i])
        rc == as_u64(rhs[i])
    IN  rem_u64(add_u64(add_u64(lc, lc), rc), as_u64(SETSUM_PRIMES[i]))

\* Mutant: the modulus is forgotten.
column_sum_no_modulus(i, lhs, rhs) ==
    add_u64(as_u64(lhs[i]), as_u64(rhs[i]))

\* The u64 `sum` of column i: (lc + rc) % SETSUM_PRIMES[i] as u64
column_sum(i, lhs, rhs) ==
    LET lc == as_u64(lhs[i])
        rc == as_u64(rhs[i])
    IN  rem_u64(add_u64(lc, rc), as_u64(SETSUM_PRIMES[i]))

\* assert!(sum <= u32::MAX as u64) holds in every column
add_state_asserts(lhs, rhs) ==
    \A i \in Cols : le_u64(column_sum(i, lhs, rhs), as_u64(U32_MAX))

add_state(lhs, rhs) == [i \in Cols |-> as_u32(column_sum(i, lhs, rhs))]

\* SETSUM_PRIMES[i] - state[i] stays in u32 in every column
invert_state_in_range(state) ==
    \A i \in Cols : le_u32(state[i], SETSUM_PRIMES[i])

\* Mutant: two's-complement negation, 0 - state[i] wrapping.
invert_state_twos_complement(state) ==
    [i \in Cols |-> wrapping_sub_u32(U32_ZERO, state[i])]

\* Mutant: one less than the inverse, SETSUM_PRIMES[i] - 1 - state[i].
invert_state_off_by_one(state) ==
    [i \in Cols |->
        wrapping_sub_u32(wrapping_sub_u32(SETSUM_PRIMES[i], U32(0, 1)),
                         state[i])]

invert_state(state) ==
    [i \in Cols |-> wrapping_sub_u32(SETSUM_PRIMES[i], state[i])]

----------------------------------------------------------------------------
(* Hash-to-state mapping.                                                  *)

\* hash[idx..end] of a 32-byte hash (a tuple, 1-based)
slice(hash, idx, end) == [k \in 1 .. (end - idx) |-> hash[idx + k]]

hash_to_state(hash) ==
    [i \in Cols |->
        LET idx == i * SETSUM_BYTES_PER_COLUMN
            end == idx + SETSUM_BYTES_PER_COLUMN
            num == from_le_bytes(slice(hash, idx, end))
        IN  rem_u32(num, SETSUM_PRIMES[i])]

\* The items (byte strings) of Spec: the empty one, and one whose hash has
\* a word equal to its column's prime (column 3: 4294967197), so that the
\* modulus of hash_to_state acts and the item's state has a zero column.
Items == {"", "item 356759676"}

\* The items of the build-and-combine specifications.
BuildItems ==
    {"this is the first value", "this is the second value",
     "this is the third value"}

\* SHA-256 of each item (the sha2 crate's output, tabulated): the items of
\* the tests, and two found by search: "item 356759676", and
\* "item 10880050", whose hash has a word above its column's prime (column
\* 3: 4294967204 > 4294967197).
Sha256(item) ==
    CASE item = "" ->
           <<227, 176, 196, 66, 152, 252, 28, 20, 154, 251, 244, 200,
             153, 111, 185, 36, 39, 174, 65, 228, 100, 155, 147, 76,
             164, 149, 153, 27, 120, 82, 184, 85>>
      [] item = "item 356759676" ->
           <<247, 93, 72, 132, 8, 60, 243, 2, 131, 170, 237, 29,
             157, 255, 255, 255, 128, 242, 86, 246, 201, 156, 140, 131,
             222, 222, 219, 192, 162, 50, 181, 234>>
      [] item = "item 10880050" ->
           <<15, 223, 32, 87, 73, 139, 220, 221, 217, 210, 215, 0,
             164, 255, 255, 255, 48, 92, 115, 126, 80, 93, 131, 14,
             88, 72, 60, 107, 146, 145, 120, 118>>
      [] item = "this is the first value" ->
           <<64, 187, 196, 217, 246, 175, 61, 154, 205, 68, 114, 63,
             60, 217, 31, 20, 217, 28, 152, 205, 163, 71, 168, 28,
             94, 85, 33, 139, 214, 23, 34, 207>>
      [] item = "this is the second value" ->
           <<31, 100, 82, 244, 91, 187, 217, 5, 122, 12, 113, 188,
             78, 36, 208, 167, 63, 161, 165, 116, 253, 134, 234, 105,
             61, 31, 65, 227, 0, 214, 17, 43>>
      [] item = "this is the third value" ->
           <<74, 221, 159, 116, 170, 221, 83, 178, 175, 166, 128, 219,
             160, 52, 167, 202, 129, 250, 250, 242, 89, 62, 217, 151,
             143, 0, 85, 226, 135, 1, 167, 125>>
      [] item = "this is the fourth value" ->
           <<182, 123, 48, 251, 85, 185, 14, 68, 51, 225, 85, 234,
             85, 79, 14, 223, 34, 115, 64, 186, 167, 114, 202, 229,
             32, 13, 212, 92, 248, 137, 93, 17>>
      [] item = "this is the fifth value" ->
           <<195, 233, 240, 169, 58, 171, 63, 30, 192, 235, 28, 95,
             99, 194, 160, 189, 156, 55, 32, 165, 124, 80, 188, 195,
             16, 202, 44, 87, 183, 35, 44, 216>>
      [] item = "this is the sixth value" ->
           <<144, 58, 232, 225, 93, 40, 27, 3, 199, 113, 50, 222,
             157, 142, 182, 19, 64, 49, 126, 89, 184, 193, 163, 225,
             87, 133, 198, 6, 206, 23, 137, 179>>
      [] item = "this is the seventh value" ->
           <<138, 157, 235, 101, 225, 150, 137, 137, 82, 174, 19, 178,
             4, 123, 27, 222, 190, 220, 49, 145, 3, 102, 203, 63,
             125, 40, 142, 102, 250, 88, 1, 145>>

item_to_state(item) == hash_to_state(Sha256(item))

----------------------------------------------------------------------------
(* The Setsum object.                                                      *)

\* Setsum::default().state
default_state == [i \in Cols |-> U32_ZERO]

\* Mutant: each column is written most significant byte first.
digest_big_endian(state) ==
    [b \in 1 .. SETSUM_BYTES |->
        LET col == (b - 1) \div SETSUM_BYTES_PER_COLUMN
            i == (b - 1) % SETSUM_BYTES_PER_COLUMN
            buf == to_le_bytes(state[col])
        IN  buf[SETSUM_BYTES_PER_COLUMN - i]]

\* Setsum::digest on a state: item_hash, 32 bytes (a tuple, 1-based:
\* item_hash[idx + i] of the source is element idx + i + 1)
digest(state) ==
    [b \in 1 .. SETSUM_BYTES |->
        LET col == (b - 1) \div SETSUM_BYTES_PER_COLUMN
            i == (b - 1) % SETSUM_BYTES_PER_COLUMN
            buf == to_le_bytes(state[col])
        IN  buf[i + 1]]

----------------------------------------------------------------------------
(* The program: a set of named Setsum values, and the calls made on them.  *)
(*                                                                         *)
(* sets[r]        the state field of Setsum r                              *)
(* live[r]        r holds a value (FALSE once moved into + or -)           *)
(* digest_out[r]  the bytes the last r.digest() returned, while current    *)
(* panicked       an assert or an overflow check has aborted the program   *)
(* History, for stating the properties:                                    *)
(* hist[r]        the calls that built r since Setsum::default()           *)
(* trail[r]       sets[r] before each call of hist[r]                      *)
(* ops            the number of mutating calls made so far                 *)
(* arith          the harness that applies invert_state and add_state to   *)
(*                a drawn state vector                                     *)

VARIABLES sets, live, digest_out, panicked, hist, trail, ops, arith

vars == <<sets, live, digest_out, panicked, hist, trail, ops, arith>>

Regs == DOMAIN sets

NoDigest == <<>>

\* One call in a history; rhs is the history of the right operand of + or -.
Call(op, item, rhs) == [op |-> op, item |-> item, rhs |-> rhs]

\* self.state = add_state(self.state, rhs_state), or the panic of its assert
Fold(r, rhs_state, call) ==
    LET ok == add_state_asserts(sets[r], rhs_state)
    IN  /\ panicked' = ~ ok
        /\ sets' = IF ok THEN [sets EXCEPT ![r] = add_state(sets[r], rhs_state)]
                         ELSE sets
        /\ hist' = [hist EXCEPT ![r] = Append(@, call)]
        /\ trail' = [trail EXCEPT ![r] = Append(@, sets[r])]
        /\ digest_out' = [digest_out EXCEPT ![r] = NoDigest]
        /\ ops' = ops + 1

\* invert_state(state) then Fold.  `SETSUM_PRIMES[i] - state[i]` leaving u32
\* panics in a build with overflow checks and wraps in one without.
InvertAndFold(r, state, call) ==
    IF invert_state_in_range(state)
    THEN Fold(r, invert_state(state), call)
    ELSE \E overflow_checks \in BOOLEAN :
            IF overflow_checks
            THEN /\ panicked' = TRUE
                 /\ ops' = ops + 1
                 /\ UNCHANGED <<sets, hist, trail, digest_out>>
            ELSE Fold(r, invert_state(state), call)

\* r.insert(item)
Insert(r, item) ==
    /\ ~ panicked
    /\ live[r]
    /\ Fold(r, item_to_state(item), Call("insert", item, <<>>))
    /\ UNCHANGED <<live, arith>>

\* r.remove(item)
Remove(r, item) ==
    /\ ~ panicked
    /\ live[r]
    /\ InvertAndFold(r, item_to_state(item), Call("remove", item, <<>>))
    /\ UNCHANGED <<live, arith>>

\* r.digest()
Digest(r) ==
    /\ ~ panicked
    /\ live[r]
    /\ digest_out' = [digest_out EXCEPT ![r] = digest(sets[r])]
    /\ UNCHANGED <<sets, live, panicked, hist, trail, ops, arith>>

\* Mutant: add_state(self.state, self.state), the right operand dropped.
Add_self_twice(r, rhs) ==
    /\ ~ panicked
    /\ r # rhs
    /\ live[r] /\ live[rhs]
    /\ Fold(r, sets[r], Call("add", "", hist[rhs]))
    /\ live' = [live EXCEPT ![rhs] = FALSE]
    /\ UNCHANGED arith

\* Mutant: the right operand is added, not inverted.
Sub_not_inverted(r, rhs) ==
    /\ ~ panicked
    /\ r # rhs
    /\ live[r] /\ live[rhs]
    /\ Fold(r, sets[rhs], Call("sub", "", hist[rhs]))
    /\ live' = [live EXCEPT ![rhs] = FALSE]
    /\ UNCHANGED arith

\* r = r + rhs (both operands are moved; the result is bound to r)
Add(r, rhs) ==
    /\ ~ panicked
    /\ r # rhs
    /\ live[r] /\ live[rhs]
    /\ Fold(r, sets[rhs], Call("add", "", hist[rhs]))
    /\ live' = [live EXCEPT ![rhs] = FALSE]
    /\ UNCHANGED arith

\* r = r - rhs
Sub(r, rhs) ==
    /\ ~ panicked
    /\ r # rhs
    /\ live[r] /\ live[rhs]
    /\ InvertAndFold(r, sets[rhs], Call("sub", "", hist[rhs]))
    /\ live' = [live EXCEPT ![rhs] = FALSE]
    /\ UNCHANGED arith

ArithIdle == [pc |-> "idle"]

\* Every Setsum of regs freshly constructed: Setsum::default().
InitRegs(regs) ==
    /\ sets = [r \in regs |-> default_state]
    /\ live = [r \in regs |-> TRUE]
    /\ digest_out = [r \in regs |-> NoDigest]
    /\ hist = [r \in regs |-> <<>>]
    /\ trail = [r \in regs |-> <<>>]
    /\ panicked = FALSE
    /\ ops = 0

----------------------------------------------------------------------------
(* Spec: two Setsums and every operation, at most MaxOps mutating calls.   *)

MaxOps == 4

Init == InitRegs({"a", "b"}) /\ arith = ArithIdle

Next ==
    \/ \E r \in Regs, item \in Items : ops < MaxOps /\ Insert(r, item)
    \/ \E r \in Regs, item \in Items : ops < MaxOps /\ Remove(r, item)
    \/ \E r \in Regs, rhs \in Regs : ops < MaxOps /\ Add(r, rhs)
    \/ \E r \in Regs, rhs \in Regs : ops < MaxOps /\ Sub(r, rhs)
    \/ \E r \in Regs : Digest(r)

Spec == Init /\ [][Next]_vars

----------------------------------------------------------------------------
(* Properties under Spec.                                                  *)

\* Calls c1 then c2 are an insert and a remove of one item, in either order.
Cancels(c1, c2) ==
    /\ c1.item = c2.item
    /\ {c1.op, c2.op} = {"insert", "remove"}

\* How many calls of h are `op` of item x.
Count(h, op, x) ==
    Cardinality({k \in DOMAIN h : h[k].op = op /\ h[k].item = x})

\* h is N inserts followed by removes of the same N items, in any order.
InsertsThenRemoves(h, items) ==
    /\ \E k \in 0 .. Len(h) :
          /\ \A j \in 1 .. k : h[j].op = "insert"
          /\ \A j \in (k + 1) .. Len(h) : h[j].op = "remove"
    /\ \A x \in items : Count(h, "insert", x) = Count(h, "remove", x)

\* C2 (inverse cancellation): whenever the last two calls on a Setsum are
\* insert(x) then remove(x), or remove(x) then insert(x), its state and
\* digest are those before the two calls, whatever insert, remove, + and -
\* built that prior state; and a Setsum built from the default by N inserts
\* followed by removes of the same N items in any order has the digest of
\* Setsum::default().
C2_InverseCancellation ==
    \A r \in Regs :
        live[r] =>
            LET h == hist[r]
                n == Len(h)
            IN  /\ (n >= 2 /\ Cancels(h[n - 1], h[n])) =>
                      /\ sets[r] = trail[r][n - 1]
                      /\ digest(sets[r]) = digest(trail[r][n - 1])
                /\ InsertsThenRemoves(h, Items) =>
                      digest(sets[r]) = digest(default_state)

\* Two distinct items inserted, then removed in the order of insertion.
C2_Witness ==
    \E r \in Regs : \E x \in Items, y \in Items :
        /\ x # y
        /\ live[r] /\ ~ panicked
        /\ Len(hist[r]) = 4
        /\ hist[r][1] = Call("insert", x, <<>>)
        /\ hist[r][2] = Call("insert", y, <<>>)
        /\ hist[r][3] = Call("remove", x, <<>>)
        /\ hist[r][4] = Call("remove", y, <<>>)

\* A further case of C2: a cancelling pair applied to a state that +
\* produced from a non-empty right operand.
C2_WitnessAfterAdd ==
    \E r \in Regs : \E x \in Items :
        /\ live[r] /\ ~ panicked
        /\ Len(hist[r]) = 3
        /\ hist[r][1].op = "add" /\ hist[r][1].rhs # <<>>
        /\ hist[r][2] = Call("remove", x, <<>>)
        /\ hist[r][3] = Call("insert", x, <<>>)

\* C6 (column range): every column of every Setsum's state is below its
\* prime: state[i] < SETSUM_PRIMES[i].
C6_ColumnRange ==
    \A r \in Regs : \A i \in Cols : lt_u32(sets[r][i], SETSUM_PRIMES[i])

\* A Setsum from which an item whose state has a zero column was removed,
\* and then the default Setsum subtracted: both fold in the inverse of 0.
C6_Witness ==
    \E r \in Regs :
        /\ live[r] /\ ~ panicked
        /\ Len(hist[r]) = 2
        /\ hist[r][1] = Call("remove", "item 356759676", <<>>)
        /\ item_to_state("item 356759676")[3] = U32_ZERO
        /\ hist[r][2].op = "sub" /\ hist[r][2].rhs = <<>>

\* C7 (no failing path): no call panics: the assert of add_state holds and
\* the subtraction of invert_state stays in u32, for every sequence of
\* insert, remove, digest, + and -, with any items.
C7_NoPanic == panicked = FALSE

\* The empty byte string, never inserted, was removed as the first call;
\* the call completed, further calls followed and digest() returned.
C7_Witness ==
    \E r \in Regs :
        /\ live[r] /\ ~ panicked
        /\ Len(hist[r]) >= 3
        /\ hist[r][1] = Call("remove", "", <<>>)
        /\ \E k \in DOMAIN hist[r] : hist[r][k].op = "sub"
        /\ digest_out[r] # NoDigest

\* C8 (digest is faithful): the bytes digest() returned hold column i as
\* 4 little-endian bytes at offset 4*i; two Setsums have equal digests
\* exactly when their states are equal; the default state's digest is 32
\* zero bytes.
C8_DigestFaithful ==
    /\ \A r \in Regs :
          digest_out[r] # NoDigest =>
              /\ Len(digest_out[r]) = SETSUM_BYTES
              /\ \A i \in Cols :
                    from_le_bytes(slice(digest_out[r], 4 * i, 4 * i + 4))
                        = sets[r][i]
              /\ (sets[r] = default_state) =>
                    digest_out[r] = [b \in 1 .. SETSUM_BYTES |-> 0]
    /\ \A r1 \in Regs, r2 \in Regs :
          (digest_out[r1] # NoDigest /\ digest_out[r2] # NoDigest) =>
              ((digest_out[r1] = digest_out[r2]) <=> (sets[r1] = sets[r2]))

\* Two Setsums with different histories, equal non-default states and
\* both digests taken.
C8_Witness ==
    \E r1 \in Regs, r2 \in Regs :
        /\ r1 # r2
        /\ digest_out[r1] # NoDigest /\ digest_out[r2] # NoDigest
        /\ Len(hist[r1]) < Len(hist[r2])
        /\ sets[r1] = sets[r2]
        /\ sets[r1] # default_state

\* A further case of C8: two Setsums with different states and both
\* digests taken.
C8_WitnessDistinct ==
    \E r1 \in Regs, r2 \in Regs :
        /\ digest_out[r1] # NoDigest /\ digest_out[r2] # NoDigest
        /\ sets[r1] # sets[r2]
        /\ sets[r1] # default_state /\ sets[r2] # default_state

----------------------------------------------------------------------------
(* SpecOrder: two Setsums built by insert alone, at most MaxInserts        *)
(* inserts in all (the tests setsum_insert_7_sorted, _reversed, _random).  *)

MaxInserts == 6

OrderNext ==
    \E r \in Regs, item \in BuildItems : ops < MaxInserts /\ Insert(r, item)

SpecOrder == Init /\ [][OrderNext]_vars

\* h consists of inserts only.
InsertOnly(h) == \A k \in DOMAIN h : h[k].op = "insert"

\* The items of the calls of h, in order.
ItemsOf(h) == [k \in DOMAIN h |-> h[k].item]

\* Insert-only histories h1 and h2 are permutations of each other.
IsPermutation(h1, h2) ==
    /\ InsertOnly(h1) /\ InsertOnly(h2)
    /\ Len(h1) = Len(h2)
    /\ \A x \in BuildItems : Count(h1, "insert", x) = Count(h2, "insert", x)

\* C1 (order independence): two Setsums built from the default by inserting
\* the same items in any two orders have identical states and digests.
C1_OrderIndependence ==
    \A r1 \in Regs, r2 \in Regs :
        IsPermutation(hist[r1], hist[r2]) =>
            /\ sets[r1] = sets[r2]
            /\ digest(sets[r1]) = digest(sets[r2])

\* Three distinct items inserted in one order and in the reverse order.
C1_Witness ==
    \E r1 \in Regs, r2 \in Regs :
        /\ ~ panicked
        /\ Len(hist[r1]) = 3 /\ Len(hist[r2]) = 3
        /\ Cardinality({hist[r1][k].item : k \in 1 .. 3}) = 3
        /\ \A k \in 1 .. 3 : hist[r2][k] = hist[r1][4 - k]

----------------------------------------------------------------------------
(* SpecMerge: three Setsums built by insert (at most MaxBuild inserts in   *)
(* all), then combined: one + two, whole - one, whole - two (the tests     *)
(* setsum_merge_two_sets and setsum_remove_two_sets).                      *)

MaxBuild == 4

MergeInit == InitRegs({"whole", "one", "two"}) /\ arith = ArithIdle

\* No Setsum has been combined yet.
Building == \A r \in Regs : live[r] /\ InsertOnly(hist[r])

MergeNext ==
    \/ \E r \in Regs, item \in BuildItems :
          ops < MaxBuild /\ Building /\ Insert(r, item)
    \/ Add("one", "two")
    \/ \E rhs \in {"one", "two"} : Sub("whole", rhs)

SpecMerge == MergeInit /\ [][MergeNext]_vars

\* h is inserts (the group G1) followed by one + whose right operand was
\* built by inserts alone (the group G2).
IsMerge(h) ==
    /\ Len(h) >= 1
    /\ InsertOnly(SubSeq(h, 1, Len(h) - 1))
    /\ h[Len(h)].op = "add"
    /\ InsertOnly(h[Len(h)].rhs)

\* C3 (merge decomposition): a Setsum built by inserting G1, to which a
\* Setsum built by inserting G2 was added, has the state and digest of a
\* Setsum built by inserting all the items of G1 and G2, in any order.
C3_MergeDecomposition ==
    \A r1 \in Regs, r2 \in Regs :
        (/\ live[r1] /\ live[r2]
         /\ IsMerge(hist[r1])
         /\ InsertOnly(hist[r2])
         /\ \A x \in BuildItems :
               Count(hist[r2], "insert", x)
                   = Count(hist[r1], "insert", x)
                       + Count(hist[r1][Len(hist[r1])].rhs, "insert", x))
        =>  /\ sets[r1] = sets[r2]
            /\ digest(sets[r1]) = digest(sets[r2])

\* Two non-empty groups merged, and the whole inserted in an order that is
\* not G1 followed by G2.
C3_Witness ==
    /\ live["one"] /\ live["whole"] /\ ~ panicked
    /\ IsMerge(hist["one"])
    /\ Len(hist["one"]) >= 2
    /\ Len(hist["one"][Len(hist["one"])].rhs) >= 1
    /\ InsertOnly(hist["whole"])
    /\ Len(hist["whole"]) >= 2
    /\ \A x \in BuildItems :
          Count(hist["whole"], "insert", x)
              = Count(hist["one"], "insert", x)
                  + Count(hist["one"][Len(hist["one"])].rhs, "insert", x)
    /\ ItemsOf(hist["whole"])
          # ItemsOf(SubSeq(hist["one"], 1, Len(hist["one"]) - 1))
                \o ItemsOf(hist["one"][Len(hist["one"])].rhs)

IsInsert(c) == c.op = "insert"

\* h is inserts (the multiset S) followed by one or more `-`, each of a
\* Setsum built by inserts alone.
IsDifference(h) ==
    LET n == Len(SelectSeq(h, IsInsert))
    IN  /\ Len(h) > n
        /\ InsertOnly(SubSeq(h, 1, n))
        /\ \A k \in (n + 1) .. Len(h) : h[k].op = "sub" /\ InsertOnly(h[k].rhs)

\* How many x the Setsums subtracted in h held.
RECURSIVE Subtracted(_, _)
Subtracted(h, x) ==
    IF h = <<>> THEN 0
    ELSE (IF Head(h).op = "sub" THEN Count(Head(h).rhs, "insert", x) ELSE 0)
            + Subtracted(Tail(h), x)

\* C4 (subtractive decomposition): Setsum(S) - Setsum(T) for a sub-multiset
\* T of S (T empty and T = S included) has the state and digest of a Setsum
\* built by inserting exactly the items of S minus T; and when the Setsums
\* subtracted cover all of S the digest is that of Setsum::default().
C4_SubtractiveDecomposition ==
    \A r1 \in Regs :
        (/\ live[r1]
         /\ IsDifference(hist[r1])
         /\ \A x \in BuildItems :
               Subtracted(hist[r1], x) <= Count(hist[r1], "insert", x))
        =>  /\ \A r2 \in Regs :
                  (/\ live[r2]
                   /\ InsertOnly(hist[r2])
                   /\ \A x \in BuildItems :
                         Count(hist[r2], "insert", x)
                             = Count(hist[r1], "insert", x)
                                 - Subtracted(hist[r1], x))
                  =>  /\ sets[r1] = sets[r2]
                      /\ digest(sets[r1]) = digest(sets[r2])
            /\ (\A x \in BuildItems :
                   Subtracted(hist[r1], x) = Count(hist[r1], "insert", x))
               => digest(sets[r1]) = digest(default_state)

\* Setsum(S) - Setsum(T) beside a Setsum of S minus T, all three non-empty.
C4_Witness ==
    /\ live["whole"] /\ live["two"] /\ ~ panicked
    /\ IsDifference(hist["whole"])
    /\ Len(hist["whole"]) = 3
    /\ hist["whole"][3].rhs # <<>>
    /\ hist["two"] # <<>>
    /\ InsertOnly(hist["two"])
    /\ \A x \in BuildItems :
          /\ Subtracted(hist["whole"], x) <= Count(hist["whole"], "insert", x)
          /\ Count(hist["two"], "insert", x)
                = Count(hist["whole"], "insert", x)
                    - Subtracted(hist["whole"], x)

\* A further case of C4: two non-empty Setsums that together cover S
\* subtracted from Setsum(S).
C4_WitnessCover ==
    /\ live["whole"] /\ ~ panicked
    /\ IsDifference(hist["whole"])
    /\ Len(hist["whole"]) = 4
    /\ hist["whole"][3].op = "sub" /\ hist["whole"][3].rhs # <<>>
    /\ hist["whole"][4].op = "sub" /\ hist["whole"][4].rhs # <<>>
    /\ \A x \in BuildItems :
          Subtracted(hist["whole"], x) = Count(hist["whole"], "insert", x)

\* A further case of C4: T empty, the default Setsum subtracted.
C4_WitnessEmpty ==
    /\ live["whole"] /\ live["two"] /\ ~ panicked
    /\ Len(hist["whole"]) = 3
    /\ hist["whole"][3].op = "sub" /\ hist["whole"][3].rhs = <<>>
    /\ IsPermutation(SubSeq(hist["whole"], 1, 2), hist["two"])

----------------------------------------------------------------------------
(* SpecShards: three shards of data, each with its own item inserted up to *)
(* MaxShardLen times, built twice over (sides "x" and "y"); the Setsums of *)
(* each side are then combined with + in any order and grouping.           *)

MaxShardLen == 2

Shards == {1, 2, 3}

ShardItem ==
    <<"this is the first value", "this is the second value",
      "this is the third value">>

ShardRegs == {"x", "y"} \X Shards

\* The state of a Setsum after inserting `items` into Setsum::default().
RECURSIVE Built(_)
Built(items) ==
    IF items = <<>> THEN default_state
    ELSE add_state(Built(SubSeq(items, 1, Len(items) - 1)),
                   item_to_state(items[Len(items)]))

ShardsInit ==
    \E n \in [Shards -> 0 .. MaxShardLen] :
        LET items(r) == [k \in 1 .. n[r[2]] |-> ShardItem[r[2]]]
        IN  /\ sets = [r \in ShardRegs |-> Built(items(r))]
            /\ hist = [r \in ShardRegs |->
                          [k \in 1 .. n[r[2]] |->
                              Call("insert", items(r)[k], <<>>)]]
            /\ trail = [r \in ShardRegs |->
                          [k \in 1 .. n[r[2]] |->
                              Built(SubSeq(items(r), 1, k - 1))]]
            /\ live = [r \in ShardRegs |-> TRUE]
            /\ digest_out = [r \in ShardRegs |-> NoDigest]
            /\ panicked = FALSE
            /\ ops = 0
            /\ arith = ArithIdle

ShardsNext ==
    \E r \in Regs, rhs \in Regs : r[1] = rhs[1] /\ Add(r, rhs)

SpecShards == ShardsInit /\ [][ShardsNext]_vars

IsAdd(c) == c.op = "add"

\* The shards combined into a Setsum of history h, as a bag of their item
\* sequences: the shard h began as, and the shards of every right operand.
RECURSIVE ShardsOf(_), ShardsAdded(_)
ShardsOf(h) ==
    SetToBag({ItemsOf(SelectSeq(h, IsInsert))})
        (+) ShardsAdded(SelectSeq(h, IsAdd))

ShardsAdded(calls) ==
    IF calls = <<>> THEN EmptyBag
    ELSE ShardsOf(Head(calls).rhs) (+) ShardsAdded(Tail(calls))

\* C5 (shards combine in any order): + is commutative and associative:
\* two Setsums that combine the same shards with +, in whatever order and
\* grouping, have identical states and digests.
C5_ShardCombination ==
    \A r1 \in Regs, r2 \in Regs :
        (/\ live[r1] /\ live[r2]
         /\ ShardsOf(hist[r1]) = ShardsOf(hist[r2]))
        =>  /\ sets[r1] = sets[r2]
            /\ digest(sets[r1]) = digest(sets[r2])

\* Three non-empty shards combined as (s + s') + s'' on side x and as
\* t + (t' + t'') on side y, starting from different shards.
C5_Witness ==
    \E r1 \in Regs, r2 \in Regs :
        /\ r1[1] = "x" /\ r2[1] = "y" /\ r1[2] # r2[2]
        /\ live[r1] /\ live[r2] /\ ~ panicked
        /\ BagCardinality(ShardsOf(hist[r1])) = 3
        /\ ShardsOf(hist[r1]) = ShardsOf(hist[r2])
        /\ <<>> \notin BagToSet(ShardsOf(hist[r1]))
        /\ Len(SelectSeq(hist[r1], IsAdd)) = 2
        /\ Len(SelectSeq(hist[r2], IsAdd)) = 1

----------------------------------------------------------------------------
(* SpecArith: invert_state, then add_state, applied to a drawn state       *)
(* vector whose columns are reduced (below their primes): columns near 0   *)
(* and near the prime, the states of items (one with a column reduced by   *)
(* hash_to_state, one with a zero column), and the vectors of the tests    *)
(* add_state_exactly_primes and invert_state_desc.                         *)

MaxDelta == 1

\* lhs of add_state_exactly_primes
TestLhs ==
    <<U32(48016, 23449), U32(27352, 4891), U32(6367, 56980),
      U32(52554, 58816), U32(42919, 3162), U32(24547, 59457),
      U32(25356, 12050), U32(49135, 4537)>>

\* state_in of invert_state_desc
TestStateIn ==
    <<U32(65535, 61166), U32(56797, 52428), U32(48059, 43690),
      U32(39321, 34952), U32(30583, 26214), U32(26214, 21845),
      U32(17476, 13107), U32(8738, 4369)>>

SampleKinds ==
    ({"low", "high"} \X (0 .. MaxDelta))
        \cup ({"item"} \X (Items \cup BuildItems \cup {"item 10880050"}))
        \cup ({"test"} \X {1, 2})

\* The value of kind k for column i.
Sample(k, i) ==
    CASE k[1] = "low" -> U32(0, k[2])
      [] k[1] = "high" ->
            wrapping_sub_u32(SETSUM_PRIMES[i], U32(0, 1 + k[2]))
      [] k[1] = "item" -> item_to_state(k[2])[i]
      [] k[1] = "test" -> IF k[2] = 1 THEN TestLhs[i + 1] ELSE TestStateIn[i + 1]

\* The sets of columns that take the first kind: a prefix or one column.
ColumnSets ==
    {{i \in Cols : i < k} : k \in 0 .. SETSUM_COLUMNS} \cup {{i} : i \in Cols}

ArithInputs ==
    {[i \in Cols |-> IF i \in S THEN Sample(k1, i) ELSE Sample(k2, i)] :
        S \in ColumnSets, k1 \in SampleKinds, k2 \in SampleKinds}

ArithInit ==
    /\ InitRegs({})
    /\ \E state \in ArithInputs : arith = [pc |-> "drawn", state |-> state]

\* invert_state(state)
ArithInvert ==
    /\ arith.pc = "drawn"
    /\ arith' = [pc |-> "inverted",
                 state |-> arith.state,
                 in_range |-> invert_state_in_range(arith.state),
                 inverted |-> invert_state(arith.state)]
    /\ UNCHANGED <<sets, live, digest_out, panicked, hist, trail, ops>>

\* add_state(state, invert_state(state))
ArithAdd ==
    /\ arith.pc = "inverted"
    /\ arith' = [pc |-> "added",
                 state |-> arith.state,
                 in_range |-> arith.in_range,
                 inverted |-> arith.inverted,
                 asserts |-> add_state_asserts(arith.state, arith.inverted),
                 sum |-> add_state(arith.state, arith.inverted)]
    /\ UNCHANGED <<sets, live, digest_out, panicked, hist, trail, ops>>

ArithNext == ArithInvert \/ ArithAdd

SpecArith == ArithInit /\ [][ArithNext]_vars

\* C9 (invert_state is the additive inverse): for every reduced state s,
\* columns equal to 0 included, add_state(s, invert_state(s)) is zero in
\* every column, and neither function fails.
C9_InverseAddsToZero ==
    arith.pc = "added" =>
        /\ arith.in_range
        /\ arith.asserts
        /\ \A i \in Cols : arith.sum[i] = U32_ZERO

\* A state with a zero column and a column one below its prime.
C9_Witness ==
    /\ arith.pc = "added"
    /\ \E i \in Cols : arith.state[i] = U32_ZERO
    /\ \E i \in Cols :
          arith.state[i] = wrapping_sub_u32(SETSUM_PRIMES[i], U32(0, 1))

\* C10 as claimed: invert_state maps 0 to 0 and its result is a reduced
\* state: every column lies in [0, SETSUM_PRIMES[i]).
C10_InverseIsReduced ==
    arith.pc = "inverted" =>
        \A i \in Cols :
            /\ lt_u32(arith.inverted[i], SETSUM_PRIMES[i])
            /\ (arith.state[i] = U32_ZERO) => (arith.inverted[i] = U32_ZERO)

\* C10 (amended): for every reduced state, each column of invert_state's
\* result is exactly SETSUM_PRIMES[i] - state[i], without wrapping: it lies
\* in (0, SETSUM_PRIMES[i]], added to state[i] it gives the prime, and it is
\* the prime itself (not 0) exactly when state[i] = 0.
C10_InverseUpToPrime ==
    arith.pc = "inverted" =>
        /\ arith.in_range
        /\ \A i \in Cols :
              /\ arith.inverted[i] # U32_ZERO
              /\ le_u32(arith.inverted[i], SETSUM_PRIMES[i])
              /\ add_u64(as_u64(arith.state[i]), as_u64(arith.inverted[i]))
                    = as_u64(SETSUM_PRIMES[i])
              /\ (arith.inverted[i] = SETSUM_PRIMES[i])
                    <=> (arith.state[i] = U32_ZERO)

\* An inverted state with a zero column and a non-zero column.
C10_Witness ==
    /\ arith.pc = "inverted"
    /\ \E i \in Cols : arith.state[i] = U32_ZERO
    /\ \E i \in Cols : arith.state[i] # U32_ZERO

====
